---- MODULE Spec2Model ----
(***************************************************************************)
(* Model of src/keyboard_stats.py: the keyboard statistics collector.      *)
(*                                                                         *)
(* Two threads share the module-level Counter key_counter: the main        *)
(* thread (load, device discovery, the select/read loop, the interrupt     *)
(* handler of __main__) and the daemon thread running periodic_save.       *)
(* There is no lock in the source, so every bytecode-level step of one     *)
(* thread may interleave with the other; the actions below are cut at the  *)
(* points where that interleaving is observable (one CSV row, one          *)
(* increment, open, close).                                                *)
(*                                                                         *)
(* A text file is a sequence of rows; a row is a sequence of fields; the   *)
(* count field is the decimal digit sequence csv.writer produces with      *)
(* str(count) and load_existing_data parses back with int().  A file       *)
(* object buffers what is written to it and flushes at close (the tables   *)
(* here are far below the 8 KiB buffer), writing from offset 0 of a file   *)
(* that open(..., 'w') truncated.                                          *)
(***************************************************************************)
EXTENDS Integers, Sequences, FiniteSets, TLC

(* ---------------------------- bounds ----------------------------------- *)
\* total number of input events the environment delivers in one run
MaxEvents == 2
\* largest count found in the store at startup is NineCount + 1
NineCount == 9

(* ------------------------ decimal conversion --------------------------- *)
DigitChars == <<"0", "1", "2", "3", "4", "5", "6", "7", "8", "9">>

RECURSIVE IntToStrReversed(_)
\* a faulty rendering: the digits come out least significant first
IntToStrReversed(n) ==
    IF n < 10 THEN <<DigitChars[n + 1]>>
    ELSE <<DigitChars[(n % 10) + 1]>> \o IntToStrReversed(n \div 10)

RECURSIVE IntToStr(_)
\* str(count) as csv.writer renders an int field
IntToStr(n) ==
    IF n < 10 THEN <<DigitChars[n + 1]>>
    ELSE IntToStr(n \div 10) \o <<DigitChars[(n % 10) + 1]>>

DigitVal(c) == CHOOSE d \in 0..9 : DigitChars[d + 1] = c

RECURSIVE StrToIntAcc(_, _)
StrToIntAcc(s, acc) ==
    IF s = <<>> THEN acc
    ELSE StrToIntAcc(Tail(s), 10 * acc + DigitVal(Head(s)))

\* a faulty parser: only the leading digit is read
StrToIntFirstDigit(s) == IF s = << >> THEN 0 ELSE DigitVal(Head(s))

\* int(row[1])
StrToInt(s) == StrToIntAcc(s, 0)

(* --------------------- the Counter (an ordered dict) -------------------- *)
\* key_counter is a sequence of <<key, count>> entries in insertion order.
HasKey(d, k) == \E i \in 1..Len(d) : d[i][1] = k

\* Counter.__getitem__: a missing key reads as 0 and is not inserted
GetItem(d, k) ==
    IF HasKey(d, k) THEN d[CHOOSE i \in 1..Len(d) : d[i][1] = k][2] ELSE 0

\* dict.__setitem__: overwrite in place, or append a new entry
SetItem(d, k, v) ==
    IF HasKey(d, k)
    THEN [i \in 1..Len(d) |-> IF d[i][1] = k THEN <<k, v>> ELSE d[i]]
    ELSE Append(d, <<k, v>>)

\* str(code): the key codes evdev hands over are already names
Str(code) == code

\* a faulty update: the count restarts at 1 instead of growing by 1
IncrementResets(d, code) == SetItem(d, Str(code), 1)

\* key_counter[str(code)] += 1
Increment(d, code) == SetItem(d, Str(code), GetItem(d, Str(code)) + 1)

(* ------------------------------ CSV rows -------------------------------- *)
\* writer.writerow([key, count])
WriteRow(entry) == <<entry[1], IntToStr(entry[2])>>

\* a faulty loader: the rows go into a table of its own, not the global one
LoadRowIntoLocal(d, row) == d

\* the body of the reader loop of load_existing_data
LoadRow(d, row) ==
    IF Len(row) = 2 THEN SetItem(d, row[1], StrToInt(row[2])) ELSE d

RECURSIVE LoadAll(_, _)
\* the whole reader loop, run without interruption over the rows of a file
LoadAll(d, rows) ==
    IF rows = <<>> THEN d ELSE LoadAll(LoadRow(d, Head(rows)), Tail(rows))

\* f.close() of a file opened with 'w': the buffered rows land at offset 0
Flush(content, buffered) ==
    buffered \o SubSeq(content, Len(buffered) + 1, Len(content))

(* --------------------------- device classifier -------------------------- *)
UpperChars ==
    << "A", "B", "C", "D", "E", "F", "G", "H", "I", "J", "K", "L", "M",
       "N", "O", "P", "Q", "R", "S", "T", "U", "V", "W", "X", "Y", "Z" >>
LowerChars ==
    << "a", "b", "c", "d", "e", "f", "g", "h", "i", "j", "k", "l", "m",
       "n", "o", "p", "q", "r", "s", "t", "u", "v", "w", "x", "y", "z" >>

\* str.lower() on one character
LowerChar(c) ==
    IF \E i \in 1..Len(UpperChars) : UpperChars[i] = c
    THEN LowerChars[CHOOSE i \in 1..Len(UpperChars) : UpperChars[i] = c]
    ELSE c

\* device.name.lower()
Lower(s) == [i \in 1..Len(s) |-> LowerChar(s[i])]

\* name in text (substring test)
Contains(text, name) ==
    \E i \in 1..(Len(text) - Len(name) + 1) :
        SubSeq(text, i, i + Len(name) - 1) = name

keyboard_names ==
    { <<"k", "e", "y", "b", "o", "a", "r", "d">>,
      <<"k", "e", "y", "b", "r", "d">>,
      <<"k", "e", "y", "p", "a", "d">> }

required_keys ==
    { "KEY_Q", "KEY_W", "KEY_E", "KEY_R",
      "KEY_A", "KEY_S", "KEY_D", "KEY_F",
      "KEY_Z", "KEY_X", "KEY_C", "KEY_V",
      "KEY_1", "KEY_2", "KEY_3",
      "KEY_SPACE", "KEY_ENTER", "KEY_BACKSPACE",
      "KEY_LEFTSHIFT", "KEY_RIGHTSHIFT",
      "KEY_LEFTCTRL", "KEY_RIGHTCTRL" }

\* device.capabilities().get(EV_KEY, []): a device is [name, has_ev_key, keys]
Capabilities(device) == IF device.has_ev_key THEN device.keys ELSE {}

\* a faulty classifier: one reference key is enough
is_keyboard_any_key(device) ==
    IF ~ \E name \in keyboard_names : Contains(Lower(device.name), name)
    THEN FALSE
    ELSE \E key \in required_keys : key \in Capabilities(device)

is_keyboard(device) ==
    IF ~ \E name \in keyboard_names : Contains(Lower(device.name), name)
    THEN FALSE
    ELSE \A key \in required_keys : key \in Capabilities(device)

\* keyboards = [device for device in devices if is_keyboard(device)], as fds
Keyboards(devices) ==
    { devices[i].fd : i \in { j \in 1..Len(devices) : is_keyboard(devices[j]) } }

(* ------------------------- the environment ------------------------------ *)
NameGenericKeyboard ==
    << "G", "e", "n", "e", "r", "i", "c", " ", "K", "e", "y", "b", "o", "a", "r", "d" >>
NameKeyboardBacklight ==
    << "K", "e", "y", "b", "o", "a", "r", "d", " ",
       "B", "a", "c", "k", "l", "i", "g", "h", "t" >>
NameMouse == << "M", "o", "u", "s", "e" >>
NameUsbKeypad == << "U", "S", "B", " ", "K", "E", "Y", "P", "A", "D" >>
NameAtKeybrd == << "A", "T", " ", "k", "e", "y", "b", "r", "d" >>
NameKeyBoardSpaced == << "K", "e", "y", " ", "B", "o", "a", "r", "d" >>

Device(name, has_ev_key, keys, fd) ==
    [name |-> name, has_ev_key |-> has_ev_key, keys |-> keys, fd |-> fd]

\* what evdev.list_devices() enumerates, in the runs explored
DeviceLists ==
    { << Device(NameGenericKeyboard, TRUE, required_keys \cup {"KEY_B"}, 3),
         Device(NameUsbKeypad, TRUE, required_keys, 4) >>,
      << Device(NameKeyboardBacklight, TRUE, {"KEY_Q", "KEY_W"}, 3),
         Device(NameGenericKeyboard, TRUE, required_keys \cup {"KEY_B"}, 4),
         Device(NameMouse, TRUE, required_keys, 5) >>,
      << Device(NameMouse, TRUE, required_keys, 3),
         Device(NameAtKeybrd, FALSE, {}, 4) >> }

\* the identities the explored events carry
Keys == {"KEY_A", "KEY_B", "KEY_C"}

Event(type, value, is_list, codes) ==
    [type |-> type, value |-> value, is_list |-> is_list, codes |-> codes]

\* the input events a device can deliver: value is the key state of an
\* EV_KEY event; a code with several names arrives as a list of names
Events ==
    { Event("EV_KEY", 1, FALSE, <<"KEY_A">>),
      Event("EV_KEY", 1, TRUE, <<"KEY_A", "KEY_B">>),
      Event("EV_KEY", 0, FALSE, <<"KEY_A">>),
      Event("EV_KEY", 2, FALSE, <<"KEY_B">>),
      Event("EV_MSC", 1, FALSE, <<"KEY_B">>) }

\* KeyEvent.key_down of evdev: the key state of an event of value 1
key_down == 1

\* categorize(event).keystate: the value of the event
KeyState(event) == event.value

\* the CSV file found at startup: written by an earlier run, or edited
Stores ==
    { << >>,
      << <<"KEY_A", IntToStr(NineCount)>> >>,
      << <<"KEY_C", IntToStr(1)>>, << >>, <<"KEY_A", IntToStr(NineCount + 1)>> >> }

Threads == {"main", "saver"}

VARIABLES
    csv_dir,        \* os.path.dirname(csv_file): "" for a bare file name
    dir_exists,     \* the parent directory of csv_file exists
    file_exists,    \* csv_file exists
    file,           \* its rows on disk
    sys_devices,    \* the devices evdev.list_devices() enumerates
    access,         \* opening the devices is permitted
    pending,        \* fd -> events queued in the device, not yet read
    injected,       \* number of events delivered so far
    key_counter,    \* the global Counter
    pc,             \* thread -> position in the code
    reader,         \* rows of the csv.reader not yet consumed
    devices,        \* the fds of main's devices dict
    r,              \* ready fds of the current select, not yet read
    batch,          \* events of the current read(), not yet handled
    codes,          \* codes of the current update_key_counter loop
    buf,            \* thread -> rows written to its open file, unflushed
    it_pos,         \* thread -> position of its key_counter.items() iterator
    it_used,        \* thread -> dict size the iterator was created with
    exc,            \* thread -> exception propagating in the thread
    exit_code,      \* exit status of the process, -1 while it runs
    outcome,        \* the last operator-facing message of __main__
    store0,         \* history: the rows of csv_file at startup
    loaded,         \* history: load_existing_data has returned
    interrupted,    \* history: a KeyboardInterrupt was raised in main
    read_failed,    \* history: a device read raised OSError
    final_saves,    \* history: calls of save_data by the interrupt handler
    downs,          \* history: key -> down-transitions handled by the loop
    last_down,      \* history: the last down event and the table before it
    snaps           \* history: the tables seen during the saver's current save

vars ==
    << csv_dir, dir_exists, file_exists, file, sys_devices, access, pending,
       injected, key_counter, pc, reader, devices, r, batch, codes, buf,
       it_pos, it_used, exc, exit_code, outcome, store0, loaded, interrupted,
       read_failed, final_saves, downs,
       last_down, snaps >>

envVars == << csv_dir, sys_devices, access, store0 >>
diskVars == << dir_exists, file_exists, file >>
loopVars == << devices, r, batch, codes, pending, injected >>
saveVars == << buf, it_pos, it_used, exc >>
histVars ==
    << loaded, interrupted, read_failed, final_saves, downs, last_down, snaps >>

NoEvent == Event("none", 0, FALSE, << >>)

\* the state of the process when __main__ is about to call main(csv_file)
InitProcess(main_at, saver_at) ==
    /\ pending = [fd \in {} |-> << >>]
    /\ injected = 0
    /\ key_counter = << >>
    /\ pc = [t \in Threads |-> IF t = "main" THEN main_at ELSE saver_at]
    /\ reader = << >>
    /\ devices = {}
    /\ r = << >>
    /\ batch = << >>
    /\ codes = << >>
    /\ buf = [t \in Threads |-> << >>]
    /\ it_pos = [t \in Threads |-> 0]
    /\ it_used = [t \in Threads |-> 0]
    /\ exc = [t \in Threads |-> "none"]
    /\ exit_code = -1
    /\ outcome = "running"
    /\ loaded = (main_at # "load")
    /\ interrupted = FALSE
    /\ read_failed = FALSE
    /\ final_saves = 0
    /\ downs = [k \in Keys |-> 0]
    /\ last_down = [event |-> NoEvent, before |-> << >>, done |-> FALSE]
    /\ snaps = {}

Init ==
    /\ csv_dir \in {"", "stats"}
    /\ dir_exists \in BOOLEAN
    /\ file_exists \in BOOLEAN
    /\ (csv_dir = "" => dir_exists)
    /\ (file_exists => dir_exists)
    /\ store0 \in Stores
    /\ (~file_exists => store0 = << >>)
    /\ file = store0
    /\ sys_devices \in DeviceLists
    /\ access \in BOOLEAN
    /\ (~access => Len(sys_devices) = 3)
    /\ InitProcess("load", "unstarted")

Running == pc["main"] # "exited"

\* the thread dies of the exception it could not handle: the process ends
\* with a traceback when it is the main thread
Die(t) ==
    /\ pc' = [pc EXCEPT ![t] = IF t = "main" THEN "exited" ELSE "dead"]
    /\ exit_code' = IF t = "main" THEN 1 ELSE exit_code
    /\ outcome' = IF t = "main" THEN "traceback" ELSE outcome

(* -------------------------- load_existing_data -------------------------- *)
\* if os.path.exists(csv_file): open it and create the reader
LoadOpen ==
    /\ pc["main"] = "load"
    /\ IF file_exists
       THEN /\ reader' = file
            /\ pc' = [pc EXCEPT !["main"] = "load_rows"]
            /\ loaded' = loaded
       ELSE /\ reader' = reader
            /\ pc' = [pc EXCEPT !["main"] = "start_thread"]
            /\ loaded' = TRUE
    /\ UNCHANGED << envVars, diskVars, loopVars, saveVars, key_counter,
                    exit_code, outcome, interrupted, read_failed,
                    final_saves, downs, last_down, snaps >>

\* one turn of "for row in reader", or its end
LoadNext ==
    /\ pc["main"] = "load_rows"
    /\ IF reader = << >>
       THEN /\ pc' = [pc EXCEPT !["main"] = "start_thread"]
            /\ loaded' = TRUE
            /\ UNCHANGED << reader, key_counter >>
       ELSE /\ key_counter' = LoadRow(key_counter, Head(reader))
            /\ reader' = Tail(reader)
            /\ UNCHANGED << pc, loaded >>
    /\ UNCHANGED << envVars, diskVars, loopVars, saveVars,
                    exit_code, outcome, interrupted, read_failed,
                    final_saves, downs, last_down, snaps >>

(* ------------------------------- main ----------------------------------- *)
\* save_thread.start(): the daemon thread enters periodic_save
StartThread ==
    /\ pc["main"] = "start_thread"
    /\ pc' = [pc EXCEPT !["main"] = "find", !["saver"] = "sleep"]
    /\ UNCHANGED << envVars, diskVars, loopVars, saveVars, key_counter, reader,
                    exit_code, outcome, histVars >>

NoKeyboardsNever(keyboards) == FALSE

\* "if not keyboards": the list find_keyboards() returned is empty
NoKeyboards(keyboards) == keyboards = {}

\* find_keyboards() opened every device and kept the keyboards
FindKeyboards ==
    /\ pc["main"] = "find"
    /\ access
    /\ LET keyboards == Keyboards(sys_devices) IN
       IF NoKeyboards(keyboards)
       THEN /\ pc' = [pc EXCEPT !["main"] = "exited"]
            /\ exit_code' = 0
            /\ outcome' = "no_keyboards"
            /\ UNCHANGED << devices, pending >>
       ELSE /\ pc' = [pc EXCEPT !["main"] = "select"]
            /\ devices' = keyboards
            /\ pending' = [fd \in keyboards |-> << >>]
            /\ UNCHANGED << exit_code, outcome >>
    /\ UNCHANGED << envVars, diskVars, saveVars, key_counter, reader, r, batch,
                    codes, injected, histVars >>

\* evdev.InputDevice(path) raised PermissionError: caught in __main__, which
\* prints the advice and falls off its end
FindKeyboardsDenied ==
    /\ pc["main"] = "find"
    /\ ~access
    /\ pc' = [pc EXCEPT !["main"] = "exited"]
    /\ exit_code' = 0
    /\ outcome' = "permission_denied"
    /\ UNCHANGED << envVars, diskVars, loopVars, saveVars, key_counter, reader,
                    histVars >>

\* a device delivers key events only for the keys among its capabilities
CanDeliver(fd, event) ==
    \/ event.type # "EV_KEY"
    \/ \E i \in 1..Len(sys_devices) :
          /\ sys_devices[i].fd = fd
          /\ \A j \in 1..Len(event.codes) :
                event.codes[j] \in Capabilities(sys_devices[i])

\* the environment: a monitored device queues one more input event
DeviceEvent ==
    /\ Running
    /\ injected < MaxEvents
    /\ \E fd \in DOMAIN pending, event \in Events :
          /\ CanDeliver(fd, event)
          /\ pending' = [pending EXCEPT ![fd] = Append(@, event)]
    /\ injected' = injected + 1
    /\ UNCHANGED << envVars, diskVars, saveVars, key_counter, pc, reader,
                    devices, r, batch, codes, exit_code, outcome, histVars >>

RECURSIVE SetToSeq(_)
\* the ready fds in the order select returns them
SetToSeq(fds) ==
    IF fds = {} THEN << >>
    ELSE LET fd == CHOOSE x \in fds : \A y \in fds : x <= y
         IN <<fd>> \o SetToSeq(fds \ {fd})

\* r, w, x = select.select(devices, [], []) returns the readable devices
Select ==
    /\ pc["main"] = "select"
    /\ \E fd \in devices : pending[fd] # << >>
    /\ r' = SetToSeq({fd \in devices : pending[fd] # << >>})
    /\ pc' = [pc EXCEPT !["main"] = "for_fd"]
    /\ UNCHANGED << envVars, diskVars, saveVars, key_counter, reader, devices,
                    batch, codes, pending, injected, exit_code, outcome,
                    loaded, interrupted, read_failed, final_saves, downs, last_down, snaps >>

ReadOne(queue) == IF queue = << >> THEN << >> ELSE << Head(queue) >>

\* devices[fd].read() yields every event the device holds, oldest first
Read(queue) == queue

\* one turn of "for fd in r": devices[fd].read() takes what the device holds
ReadDevice ==
    /\ pc["main"] = "for_fd"
    /\ IF r = << >>
       THEN /\ pc' = [pc EXCEPT !["main"] = "select"]
            /\ UNCHANGED << r, batch, pending >>
       ELSE /\ batch' = Read(pending[Head(r)])
            /\ pending' = [pending EXCEPT ![Head(r)] = << >>]
            /\ r' = Tail(r)
            /\ pc' = [pc EXCEPT !["main"] = "for_event"]
    /\ UNCHANGED << envVars, diskVars, saveVars, key_counter, reader, devices,
                    codes, injected, exit_code, outcome, histVars >>

\* devices[fd].read() raised OSError (the device went away): no handler of
\* __main__ matches it
ReadDeviceError ==
    /\ pc["main"] = "for_fd"
    /\ r # << >>
    /\ read_failed' = TRUE
    /\ Die("main")
    /\ UNCHANGED << envVars, diskVars, loopVars, saveVars, key_counter, reader,
                    loaded, interrupted, final_saves, downs, last_down, snaps >>

\* a faulty update: a list of codes counts once, under its first code
UpdateCodesFirstOnly(event) == <<event.codes[1]>>

\* the codes update_key_counter goes through for a keycode
UpdateCodes(event) == IF event.is_list THEN event.codes ELSE <<event.codes[1]>>

\* a faulty filter: auto-repeat counts as a press
IsKeyDownOrHold(event) == event.type = "EV_KEY" /\ KeyState(event) # 0

\* the event passes both filters of the loop
IsKeyDown(event) == event.type = "EV_KEY" /\ KeyState(event) = key_down

Occurrences(seq, k) == Cardinality({i \in 1..Len(seq) : seq[i] = k})

\* one turn of "for event in devices[fd].read()", up to the call of
\* update_key_counter
HandleEvent ==
    /\ pc["main"] = "for_event"
    /\ IF batch = << >>
       THEN /\ pc' = [pc EXCEPT !["main"] = "for_fd"]
            /\ UNCHANGED << batch, codes, downs, last_down >>
       ELSE LET event == Head(batch) IN
            /\ batch' = Tail(batch)
            /\ IF IsKeyDown(event)
               THEN /\ codes' = UpdateCodes(event)
                    /\ pc' = [pc EXCEPT !["main"] = "update"]
               ELSE UNCHANGED << codes, pc >>
            /\ IF event.type = "EV_KEY" /\ event.value = 1
               THEN /\ downs' = [k \in Keys |->
                                   downs[k] + Occurrences(event.codes, k)]
                    /\ last_down' = [event |-> event, before |-> key_counter,
                                     done |-> FALSE]
               ELSE UNCHANGED << downs, last_down >>
    /\ UNCHANGED << envVars, diskVars, saveVars, key_counter, reader, devices,
                    r, pending, injected, exit_code, outcome, loaded,
                    interrupted, read_failed, final_saves, snaps >>

\* update_key_counter: one increment; it returns after the last one
UpdateKeyCounter ==
    /\ pc["main"] = "update"
    /\ key_counter' = Increment(key_counter, Head(codes))
    /\ codes' = Tail(codes)
    /\ snaps' = IF pc["saver"] = "save_next"
                THEN snaps \cup {key_counter'} ELSE snaps
    /\ IF Tail(codes) = << >>
       THEN /\ pc' = [pc EXCEPT !["main"] = "for_event"]
            /\ last_down' = [last_down EXCEPT !.done = TRUE]
       ELSE UNCHANGED << pc, last_down >>
    /\ UNCHANGED << envVars, diskVars, saveVars, reader, devices, r, batch,
                    pending, injected, exit_code, outcome, loaded, interrupted,
                    read_failed, final_saves, downs >>

\* KeyboardInterrupt is raised in the main thread inside main(): the handler
\* of __main__ calls save_data
Interrupt ==
    /\ pc["main"] \in {"load", "load_rows", "start_thread", "find", "select",
                       "for_fd", "for_event", "update"}
    /\ pc' = [pc EXCEPT !["main"] = "save_makedirs"]
    /\ interrupted' = TRUE
    /\ final_saves' = final_saves + 1
    /\ UNCHANGED << envVars, diskVars, loopVars, saveVars, key_counter, reader,
                    exit_code, outcome, loaded, read_failed, downs, last_down, snaps >>

(* ---------------------- periodic_save and save_data --------------------- *)
\* time.sleep(SAVE_INTERVAL) returns and periodic_save calls save_data
Wake ==
    /\ Running
    /\ pc["saver"] = "sleep"
    /\ pc' = [pc EXCEPT !["saver"] = "save_makedirs"]
    /\ UNCHANGED << envVars, diskVars, loopVars, saveVars, key_counter, reader,
                    exit_code, outcome, histVars >>

\* os.makedirs(os.path.dirname(csv_file), exist_ok=True): an empty path
\* raises FileNotFoundError
SaveMakedirs(t) ==
    /\ Running
    /\ pc[t] = "save_makedirs"
    /\ IF csv_dir = ""
       THEN /\ exc' = [exc EXCEPT ![t] = "FileNotFoundError"]
            /\ pc' = [pc EXCEPT ![t] = "save_raise"]
            /\ UNCHANGED dir_exists
       ELSE /\ dir_exists' = TRUE
            /\ pc' = [pc EXCEPT ![t] = "save_open"]
            /\ UNCHANGED exc
    /\ UNCHANGED << envVars, file_exists, file, loopVars, buf, it_pos, it_used,
                    key_counter, reader, exit_code, outcome, histVars >>

KeepContent(content) == content

\* mode 'w' of open(): whatever the file held is discarded
Truncate(content) == << >>

\* open(csv_file, 'w') truncates the file; the for loop creates its iterator
SaveOpen(t) ==
    /\ Running
    /\ pc[t] = "save_open"
    /\ file_exists' = TRUE
    /\ file' = Truncate(file)
    /\ buf' = [buf EXCEPT ![t] = << >>]
    /\ it_pos' = [it_pos EXCEPT ![t] = 0]
    /\ it_used' = [it_used EXCEPT ![t] = Len(key_counter)]
    /\ pc' = [pc EXCEPT ![t] = "save_next"]
    /\ snaps' = IF t = "saver" THEN {key_counter} ELSE snaps
    /\ UNCHANGED << envVars, dir_exists, loopVars, exc, key_counter, reader,
                    exit_code, outcome, loaded, interrupted, read_failed, final_saves, downs, last_down >>

\* open(csv_file, 'w') raised OSError (disk full, no permission)
SaveOpenError(t) ==
    /\ Running
    /\ pc[t] = "save_open"
    /\ exc' = [exc EXCEPT ![t] = "OSError"]
    /\ pc' = [pc EXCEPT ![t] = "save_raise"]
    /\ UNCHANGED << envVars, diskVars, loopVars, buf, it_pos, it_used,
                    key_counter, reader, exit_code, outcome, loaded,
                    interrupted, read_failed, final_saves, downs,
                    last_down, snaps >>

\* one step of the items() iterator and the writerow of the pair it yields;
\* the iterator raises RuntimeError when the dict changed size
SaveNext(t) ==
    /\ Running
    /\ pc[t] = "save_next"
    /\ IF it_used[t] # Len(key_counter)
       THEN /\ exc' = [exc EXCEPT ![t] = "RuntimeError"]
            /\ pc' = [pc EXCEPT ![t] = "save_close"]
            /\ UNCHANGED << buf, it_pos >>
       ELSE IF it_pos[t] >= Len(key_counter)
       THEN /\ pc' = [pc EXCEPT ![t] = "save_close"]
            /\ UNCHANGED << buf, it_pos, exc >>
       ELSE /\ buf' = [buf EXCEPT ![t] = Append(@, WriteRow(key_counter[it_pos[t] + 1]))]
            /\ it_pos' = [it_pos EXCEPT ![t] = @ + 1]
            /\ UNCHANGED << pc, exc >>
    /\ UNCHANGED << envVars, diskVars, loopVars, it_used, key_counter, reader,
                    exit_code, outcome, histVars >>

\* the with block closes the file, on the normal path and on an exception:
\* the buffered rows are written and the file object is gone (the handler's
\* rows are kept, as what its save_data wrote).  On the normal path
\* save_data returns; periodic_save then prints and sleeps again
SaveClose(t) ==
    /\ Running
    /\ pc[t] = "save_close"
    /\ file' = Flush(file, buf[t])
    /\ file_exists' = TRUE
    /\ pc' = [pc EXCEPT ![t] = IF exc[t] # "none" THEN "save_raise"
                               ELSE IF t = "main" THEN "save_return"
                               ELSE "sleep"]
    /\ buf' = [buf EXCEPT ![t] = IF t = "main" THEN @ ELSE << >>]
    /\ it_pos' = [it_pos EXCEPT ![t] = IF t = "main" THEN @ ELSE 0]
    /\ it_used' = [it_used EXCEPT ![t] = IF t = "main" THEN @ ELSE 0]
    /\ snaps' = IF t = "saver" THEN {} ELSE snaps
    /\ UNCHANGED << envVars, dir_exists, loopVars, exc, key_counter, reader,
                    exit_code, outcome, loaded, interrupted, read_failed,
                    final_saves, downs, last_down >>

\* the handler prints "Data saved. Exiting..." and the process ends
HandlerExit ==
    /\ pc["main"] = "save_return"
    /\ pc' = [pc EXCEPT !["main"] = "exited"]
    /\ exit_code' = 0
    /\ outcome' = "interrupt_saved"
    /\ UNCHANGED << envVars, diskVars, loopVars, saveVars, key_counter, reader,
                    histVars >>

\* save_data raises: nothing in periodic_save or in the handler catches it
SaveRaise(t) ==
    /\ Running
    /\ pc[t] = "save_raise"
    /\ Die(t)
    /\ UNCHANGED << envVars, diskVars, loopVars, saveVars, key_counter, reader,
                    histVars >>

Next ==
    \/ LoadOpen
    \/ LoadNext
    \/ StartThread
    \/ FindKeyboards
    \/ FindKeyboardsDenied
    \/ DeviceEvent
    \/ Select
    \/ ReadDevice
    \/ ReadDeviceError
    \/ HandleEvent
    \/ UpdateKeyCounter
    \/ Interrupt
    \/ Wake
    \/ \E t \in Threads : SaveMakedirs(t)
    \/ \E t \in Threads : SaveOpen(t)
    \/ \E t \in Threads : SaveOpenError(t)
    \/ \E t \in Threads : SaveNext(t)
    \/ \E t \in Threads : SaveClose(t)
    \/ HandlerExit
    \/ \E t \in Threads : SaveRaise(t)

Spec == Init /\ [][Next]_vars

(* ---------------- the classifier over a wider set of devices ------------ *)
ClassifierNames ==
    { NameGenericKeyboard, NameKeyboardBacklight, NameMouse, NameUsbKeypad,
      NameAtKeybrd, NameKeyBoardSpaced }

\* <<has_ev_key, keys>>: no EV_KEY entry, none, two, all but one, all, more
ClassifierCapabilities ==
    { <<FALSE, {}>>, <<TRUE, {}>>, <<TRUE, {"KEY_Q", "KEY_W"}>>,
      <<TRUE, required_keys \ {"KEY_RIGHTCTRL"}>>, <<TRUE, required_keys>>,
      <<TRUE, required_keys \cup {"KEY_B"}>> }

\* main is about to call find_keyboards(), with no store and the saver asleep
InitClassifier ==
    /\ csv_dir = "stats"
    /\ dir_exists = FALSE
    /\ file_exists = FALSE
    /\ store0 = << >>
    /\ file = << >>
    /\ access = TRUE
    /\ \E n1 \in ClassifierNames, n2 \in ClassifierNames,
          c1 \in ClassifierCapabilities, c2 \in ClassifierCapabilities :
          sys_devices = << Device(n1, c1[1], c1[2], 3), Device(n2, c2[1], c2[2], 4) >>
    /\ InitProcess("find", "sleep")

NextClassifier == FindKeyboards

SpecClassifier == InitClassifier /\ [][NextClassifier]_vars

(* ===================== what the claims are stated in ==================== *)
DigitOf(c) ==
    CASE c = "0" -> 0 [] c = "1" -> 1 [] c = "2" -> 2 [] c = "3" -> 3
      [] c = "4" -> 4 [] c = "5" -> 5 [] c = "6" -> 6 [] c = "7" -> 7
      [] c = "8" -> 8 [] c = "9" -> 9

RECURSIVE DecimalValue(_)
\* the number a decimal numeral denotes
DecimalValue(s) ==
    IF Len(s) = 0 THEN 0
    ELSE 10 * DecimalValue(SubSeq(s, 1, Len(s) - 1)) + DigitOf(s[Len(s)])

\* the records of a file: its rows of two fields
Records(rows) == {i \in 1..Len(rows) : Len(rows[i]) = 2}

\* the identities the store held at startup, and the count of each
StoredKeys == {store0[i][1] : i \in Records(store0)}

StoredCount(k) ==
    LET at == {i \in Records(store0) : store0[i][1] = k}
    IN IF at = {} THEN 0
       ELSE DecimalValue(store0[CHOOSE i \in at : \A j \in at : j <= i][2])

\* the down-transitions of k whose increment has been executed
Recorded(k) == downs[k] - Occurrences(codes, k)

\* the rows are one record per entry of the table d, with its count
HoldsTable(rows, d) ==
    /\ Len(rows) = Len(d)
    /\ \A i \in 1..Len(rows) :
          /\ Len(rows[i]) = 2
          /\ rows[i][1] = d[i][1]
          /\ DecimalValue(rows[i][2]) = d[i][2]

\* C1: an interrupt arriving mid-interval leads to exactly one final save,
\* and the file left on disk when the process has exited after that save
\* holds the counter table as it stood at the interrupt (the table does not
\* change after the interrupt: only the interrupted thread writes it).
C1_FinalSaveIsLeftOnDisk ==
    (pc["main"] = "exited" /\ interrupted /\ exit_code = 0)
        => /\ final_saves = 1
           /\ file_exists
           /\ HoldsTable(file, key_counter)

\* C2: the rows one periodic save has written are the counter table as it
\* stood at one instant between the start and the end of that save, and a
\* save running while keys are counted never fails.
C2_SaveIsOneSnapshot ==
    /\ exc["saver"] # "RuntimeError"
    /\ (pc["saver"] = "save_close" /\ exc["saver"] = "none")
          => \E table \in snaps : HoldsTable(buf["saver"], table)

\* C3: once the table is loaded, the count of every identity is the count
\* the store held for it plus the number of down-transitions recorded for
\* it; key-up, repeat and non-key events add nothing, and no identity
\* appears in the table that was neither stored nor pressed.
C3_CountsAreDownTransitions ==
    loaded =>
        /\ \A k \in Keys : GetItem(key_counter, k) = StoredCount(k) + Recorded(k)
        /\ \A i \in 1..Len(key_counter) :
              /\ key_counter[i][1] \in Keys
              /\ key_counter[i][1] \in StoredKeys \/ downs[key_counter[i][1]] > 0

C3_Witness ==
    /\ pc["main"] = "select"
    /\ injected >= 2
    /\ \A fd \in devices : pending[fd] = << >>
    /\ downs["KEY_A"] = 1
    /\ downs["KEY_B"] = 0
    /\ StoredCount("KEY_A") = NineCount
    /\ GetItem(key_counter, "KEY_A") = NineCount + 1

\* a row is appended to the file a thread is writing
WritesRow(t) == Len(buf'[t]) = Len(buf[t]) + 1

\* C4: after the startup load, every row a save writes for an identity
\* carries the stored count of that identity plus the down-events recorded
\* for it so far (stored n and m down-events: n + m), and a save that runs
\* to its end has written a row for every stored identity.
C4_StartupMerge ==
    /\ [][\A t \in Threads :
            (loaded /\ WritesRow(t)) =>
                LET row == buf'[t][Len(buf'[t])]
                IN DecimalValue(row[2]) = StoredCount(row[1]) + Recorded(row[1])]_vars
    /\ [](\A t \in Threads :
            (loaded /\ pc[t] = "save_close" /\ exc[t] = "none") =>
                \A k \in StoredKeys : \E i \in 1..Len(buf[t]) : buf[t][i][1] = k)

C4_Witness ==
    /\ StoredCount("KEY_A") = NineCount + 1
    /\ StoredCount("KEY_C") = 1
    /\ downs["KEY_A"] = 2
    /\ pc["saver"] = "sleep"
    /\ file = << <<"KEY_C", <<"1">> >>,
                 <<"KEY_A", IntToStr(NineCount + 3)>>,
                 <<"KEY_B", <<"1">> >> >>

\* C5: the rows save_data writes for a table, loaded into an empty table,
\* give back that table: the same keys with the same counts.
C5_RoundTrip ==
    pc["main"] = "save_return" => LoadAll(<< >>, buf["main"]) = key_counter

C5_Witness ==
    /\ pc["main"] = "save_return"
    /\ Len(key_counter) = 3
    /\ \E i \in 1..Len(key_counter) : key_counter[i][2] > NineCount
    /\ LoadAll(<< >>, buf["main"]) = key_counter

\* C6: when a down event whose key code is a list has been handled, the
\* count of every identity has grown by the number of times the list names
\* it: by 1 for each listed code, by 0 for every other identity.
C6_CompositeEvent ==
    (last_down.done /\ last_down.event.is_list) =>
        \A k \in Keys :
            GetItem(key_counter, k)
                = GetItem(last_down.before, k)
                    + (IF \E i \in 1..Len(last_down.event.codes) :
                             last_down.event.codes[i] = k
                       THEN 1 ELSE 0)

C6_Witness ==
    /\ last_down.done
    /\ last_down.event.codes = <<"KEY_A", "KEY_B">>
    /\ last_down.event.is_list
    /\ GetItem(last_down.before, "KEY_A") = NineCount + 1
    /\ GetItem(key_counter, "KEY_A") = NineCount + 2
    /\ GetItem(key_counter, "KEY_B") = 1
    /\ GetItem(key_counter, "KEY_C") = 1

\* the two characters are the same letter, whatever their case
SameLetter(a, b) ==
    \/ a = b
    \/ \E i \in 1..Len(UpperChars) :
          {a, b} = {UpperChars[i], LowerChars[i]}

\* one of the keyboard-indicating substrings occurs in the name
NameIndicatesKeyboard(name) ==
    \E word \in keyboard_names, at \in 1..Len(name) :
        /\ at + Len(word) - 1 <= Len(name)
        /\ \A j \in 1..Len(word) : SameLetter(name[at + j - 1], word[j])

Qualifies(device) ==
    /\ NameIndicatesKeyboard(device.name)
    /\ device.has_ev_key
    /\ required_keys \subseteq device.keys

\* C7: find_keyboards keeps a device if and only if its name contains one
\* of the keyboard substrings, case-insensitively, and its key capabilities
\* include every reference key; a device with no EV_KEY capabilities and a
\* device whose name matches no substring are never kept.
C7_Classifier ==
    (devices # {} \/ outcome = "no_keyboards") =>
        devices = {sys_devices[i].fd :
                     i \in {j \in 1..Len(sys_devices) : Qualifies(sys_devices[j])}}

C7_Witness ==
    /\ pc["main"] = "select"
    /\ devices = {4}
    /\ sys_devices[1].name = NameKeyboardBacklight
    /\ sys_devices[1].keys = {"KEY_Q", "KEY_W"}
    /\ sys_devices[2].name = NameUsbKeypad

\* C8: a periodic save that fails to write does not end the scheduler: the
\* saver thread is never dead of the OSError of a save.
C8_SchedulerSurvivesWriteFailure ==
    ~(pc["saver"] = "dead" /\ exc["saver"] = "OSError")

\* C9: after a read error on one device the process keeps monitoring the
\* others: it has not ended while another device is left, unless interrupted.
C9_ReadErrorDropsDevice ==
    (read_failed /\ Cardinality(devices) > 1 /\ ~interrupted)
        => pc["main"] # "exited"

\* C10: when opening the devices is denied, the process reports it, has not
\* entered the loop, and its exit code is not 0.
C10_PrivilegeFailureExitsNonZero ==
    outcome = "permission_denied"
        => /\ pc["main"] = "exited"
           /\ devices = {}
           /\ exit_code # 0

\* C11: an interrupt is followed by exactly one save by the handler, which
\* completes, and the process then exits with code 0 (the disk accepting the
\* write: no OSError from open).
C11_InterruptSavesOnceAndExitsZero ==
    (interrupted /\ pc["main"] = "exited" /\ exc["main"] # "OSError")
        => /\ final_saves = 1
           /\ outcome = "interrupt_saved"
           /\ exit_code = 0

\* the positions of main() inside "while True"
LoopPcs == {"select", "for_fd", "for_event", "update"}

NoneQualifies == \A i \in 1..Len(sys_devices) : ~Qualifies(sys_devices[i])

\* C12: when the devices can be opened and none of them qualifies, the step
\* that ends find_keyboards ends the process with exit code 0 and the
\* report, with an empty devices dict; and with an empty devices dict main
\* is never inside the loop, no event was waited for and nothing was counted.
C12_NoKeyboardsExitsZero ==
    /\ [][(/\ pc["main"] = "find"
           /\ pc'["main"] \notin {"find", "save_makedirs"}
           /\ access
           /\ NoneQualifies)
          => /\ pc'["main"] = "exited"
             /\ exit_code' = 0
             /\ outcome' = "no_keyboards"
             /\ devices' = {}]_vars
    /\ [](outcome = "no_keyboards" => (pc["main"] = "exited" /\ exit_code = 0))
    /\ [](devices = {} =>
            /\ pc["main"] \notin LoopPcs
            /\ injected = 0
            /\ \A k \in Keys : downs[k] = 0 /\ Recorded(k) = 0)

C12_Witness ==
    /\ outcome = "no_keyboards"
    /\ pc["main"] = "exited"
    /\ exit_code = 0
    /\ ~interrupted
    /\ Len(sys_devices) = 2
    /\ key_counter # << >>

\* C13: the step that closes the file of a save that met no exception leaves
\* the parent directory and the file in existence, and the file holding
\* exactly one record per entry of the table: the table as it is for the
\* save of the handler (nothing counts keys any more), and the table as it
\* was at one moment of the save for a periodic save.
C13_SaveIsCompleteRewrite ==
    [][\A t \in Threads :
         (pc[t] = "save_close" /\ pc'[t] # "save_close" /\ exc[t] = "none")
            => /\ dir_exists'
               /\ file_exists'
               /\ t = "main" => HoldsTable(file', key_counter)
               /\ t = "saver" =>
                     \E table \in snaps \cup {key_counter} :
                         HoldsTable(file', table)]_vars

\* C14: once the load has finished every count is a natural number, no count
\* decreases, and the table changes only in update_key_counter, by exactly
\* one identity gaining exactly 1; no step of a save, of the scheduler or of
\* the shutdown changes it.
C14_CountsOnlyGrowByOne ==
    /\ [](\A i \in 1..Len(key_counter) : key_counter[i][2] \in Nat)
    /\ [][loaded =>
            /\ \A k \in Keys \cup StoredKeys :
                  GetItem(key_counter', k) >= GetItem(key_counter, k)
            /\ key_counter' # key_counter =>
                  /\ pc["main"] = "update"
                  /\ \E k \in Keys :
                        /\ GetItem(key_counter', k) = GetItem(key_counter, k) + 1
                        /\ \A j \in (Keys \cup StoredKeys) \ {k} :
                              GetItem(key_counter', j) = GetItem(key_counter, j)]_vars

C14_Witness ==
    /\ loaded
    /\ pc["main"] = "exited"
    /\ outcome = "interrupt_saved"
    /\ downs["KEY_A"] = 2
    /\ GetItem(key_counter, "KEY_A") = NineCount + 3
    /\ GetItem(key_counter, "KEY_C") = 1

\* C15: when load_existing_data has returned, nothing has failed; the table
\* is empty if the file did not exist, and otherwise it holds exactly the
\* identities of the stored records, each with its stored count.
C15_LoadReadsWhatExists ==
    pc["main"] = "start_thread" =>
        /\ exit_code = -1
        /\ outcome = "running"
        /\ loaded
        /\ ~file_exists => key_counter = << >>
        /\ file_exists =>
              /\ Len(key_counter) = Cardinality(StoredKeys)
              /\ \A k \in StoredKeys :
                    /\ HasKey(key_counter, k)
                    /\ GetItem(key_counter, k) = StoredCount(k)

C15_Witness ==
    /\ pc["main"] = "start_thread"
    /\ file_exists
    /\ Len(store0) = 3
    /\ Len(key_counter) = 2
    /\ GetItem(key_counter, "KEY_A") = NineCount + 1

\* C16: select hands over every device that holds events; a read takes all
\* the events of its device, in their order; the events of a read are
\* handled one by one from the oldest; and main is back at select only with
\* no ready device, no event and no key code left over.
C16_ReadyDevicesAreDrained ==
    /\ [][(pc["main"] = "select" /\ pc'["main"] = "for_fd") =>
            /\ \A fd \in devices :
                  pending[fd] # << >> =>
                      Cardinality({i \in 1..Len(r') : r'[i] = fd}) = 1
            /\ \A i \in 1..Len(r') : r'[i] \in devices]_vars
    /\ [][(pc["main"] = "for_fd" /\ pc'["main"] = "for_event") =>
            /\ batch' = pending[Head(r)]
            /\ pending'[Head(r)] = << >>
            /\ r' = Tail(r)]_vars
    /\ [][batch' # batch =>
            \/ pc["main"] = "for_fd" /\ batch = << >>
            \/ pc["main"] = "for_event" /\ batch' = Tail(batch)]_vars
    /\ [][r' # r =>
            \/ pc["main"] = "select" /\ r = << >>
            \/ pc["main"] = "for_fd" /\ batch = << >> /\ r' = Tail(r)]_vars
    /\ [](pc["main"] = "select" =>
            (r = << >> /\ batch = << >> /\ codes = << >>))

C16_Witness ==
    /\ pc["main"] = "for_event"
    /\ Len(batch) = 2
    /\ batch[1] # batch[2]
    /\ pending[CHOOSE fd \in devices : \A other \in devices : fd <= other] = << >>

\* C17: a save that runs to its end has written, for every identity the
\* store held at startup, a count at least as large as the stored one,
\* whenever the interrupt arrives.
C17_StoredCountsAreNeverLost ==
    \A t \in Threads :
        (pc[t] = "save_close" /\ exc[t] = "none") =>
            \A k \in StoredKeys :
                \E i \in 1..Len(buf[t]) :
                    /\ buf[t][i][1] = k
                    /\ DecimalValue(buf[t][i][2]) >= StoredCount(k)

\* C18: save_data does not fail for want of a directory component in the
\* path: no thread's save raises FileNotFoundError.
C18_BareFileNameIsSaved ==
    \A t \in Threads : exc[t] # "FileNotFoundError"

====
